---- MODULE Spec2Model ----
(***************************************************************************)
(* A model of generate_players.py: the batch run that merges the player    *)
(* statistics files (stats/*.json) with the player profiles                *)
(* (playerdata/*.dat) into players.json.                                   *)
(*                                                                         *)
(* Representation.                                                         *)
(*  - A file name is the sequence of its atoms: "." for a dot and a        *)
(*    dot-free string for a maximal run of other characters, so that       *)
(*    "a.json" is <<"a", ".", "json">> and ".json" is <<".", "json">>.     *)
(*  - A Python dict is a function whose DOMAIN is the set of its keys.     *)
(*  - A JSON leaf is tagged: JInt(n) for an integer, JStr for a            *)
(*    (non-numeric) string.                                                *)
(*  - A float with two decimals (KDR) is the integer of its hundredths, a  *)
(*    float with one decimal (hearts) the integer of its tenths.           *)
(*  - A call that may raise returns [ok |-> BOOLEAN, val |-> result].      *)
(*  - The report's "lastSeen" (the wall clock) and "totals" (the same      *)
(*    numbers formatted for display) are left out: nothing reads them.     *)
(***************************************************************************)
EXTENDS Integers, Sequences, FiniteSets, TLC

VARIABLES
    statsFolder,      \* the stats directory: whether it exists, its listing
    playerdataFolder, \* the playerdata directory, likewise
    pc,               \* position of main(): "start", "load", "parse", "done"
    i,                \* index of the next entry of the listing being scanned
    info,             \* the loader's dict under construction
    player_meta,      \* main's player_meta (the loader's result)
    players,          \* main's list of reports
    output,           \* players.json: NotWritten, or <<the list written>>
    log,              \* the console: the level of each line printed
    calls             \* history: how often the loader, the report builder
                      \* and the export ran

vars == <<statsFolder, playerdataFolder, pc, i, info, player_meta, players,
          output, log, calls>>

-----------------------------------------------------------------------------
(* Bounds *)

\* files in the two directories together
MaxFiles == 2
\* largest centimetre counter of the rounding inputs
MaxCm == 450
\* largest play_time (ticks) of the rounding inputs
MaxTicks == 3000
\* largest absolute value of the playerKills / deaths inputs
MaxCount == 10
\* most summed movement counters in a stats file that has not all nine
MaxSummed == 3

-----------------------------------------------------------------------------
(* Values *)

\* a directory is [exists, files], files its os.listdir() order, each entry
\* a [name, doc]
Missing == [exists |-> FALSE, files |-> <<>>]
Folder(files) == [exists |-> TRUE, files |-> files]
NotWritten == <<>>
EmptyDict == <<>>

JInt(n) == [tag |-> "int", val |-> n]
JStr == [tag |-> "str", val |-> 0]
IsInt(v) == v.tag = "int"

\* a number, Python's None, and the "N/A" of a report's hearts
Num(n) == [tag |-> "num", val |-> n]
None == [tag |-> "None", val |-> 0]
NA == [tag |-> "N/A", val |-> 0]

Ok(v) == [ok |-> TRUE, val |-> v]
Raise == [ok |-> FALSE, val |-> <<>>]

\* d.get(k, default)
Get(d, k, default) == IF k \in DOMAIN d THEN d[k] ELSE default

RECURSIVE SumOver(_, _)
SumOver(f, S) ==
    IF S = {} THEN 0
    ELSE LET x == CHOOSE y \in S : TRUE IN f[x] + SumOver(f, S \ {x})

-----------------------------------------------------------------------------
(* File names *)

STATS_EXT == <<".", "json">>
DAT_EXT == <<".", "dat">>

\* file.endswith(ext)
endswith(file, ext) ==
    /\ Len(file) >= Len(ext)
    /\ SubSeq(file, Len(file) - Len(ext) + 1, Len(file)) = ext

\* os.path.splitext(file)[0]: the name up to its last dot, unless only dots
\* precede that dot (a leading dot starts no extension)
splitext(file) ==
    LET dots == {k \in 1..Len(file) : file[k] = "."} IN
    IF dots = {} THEN file
    ELSE LET dotIndex == CHOOSE k \in dots : \A m \in dots : m <= k IN
         IF \E k \in 1..(dotIndex - 1) : file[k] # "."
         THEN SubSeq(file, 1, dotIndex - 1)
         ELSE file

-----------------------------------------------------------------------------
(* Helpers *)

\* Python's round(): to the nearest integer, an exact tie to the even one;
\* n / d for d > 0
RoundHalfEven(n, d) ==
    LET q == n \div d
        r == n % d
    IN  IF 2 * r < d THEN q
        ELSE IF 2 * r > d THEN q + 1
        ELSE IF q % 2 = 0 THEN q ELSE q + 1

\* the same division rounded with exact ties going up
RoundHalfUp(n, d) ==
    LET q == n \div d
        r == n % d
    IN  IF 2 * r < d THEN q ELSE q + 1

get_custom(stats, key) ==
    Get(Get(stats, "minecraft:custom", EmptyDict), key, JInt(0))

ticks_to_minutes(ticks) == RoundHalfEven(ticks, 20 * 60)

\* cm_to_blocks rounding exact ties up
cm_to_blocks_HalfUp(cm) == RoundHalfUp(cm, 100)

cm_to_blocks(cm) == RoundHalfEven(cm, 100)

\* sum() of a section's values; raises on a value that is no number
get_total(stats_section) ==
    IF DOMAIN stats_section = {} THEN Ok(0)
    ELSE IF \E k \in DOMAIN stats_section : ~IsInt(stats_section[k]) THEN Raise
    ELSE Ok(SumOver([k \in DOMAIN stats_section |-> stats_section[k].val],
                    DOMAIN stats_section))

MovementKeys == <<
    <<"Distance Sprinted", "minecraft:sprint_one_cm">>,
    <<"Distance Walked", "minecraft:walk_one_cm">>,
    <<"Distance by Boat", "minecraft:boat_one_cm">>,
    <<"Distance Fallen", "minecraft:fall_one_cm">>,
    <<"Distance Swum", "minecraft:swim_one_cm">>,
    <<"Distance Walked on Water", "minecraft:walk_on_water_one_cm">>,
    <<"Distance Walked under Water", "minecraft:walk_under_water_one_cm">>,
    <<"Distance Crouched", "minecraft:crouch_one_cm">>,
    <<"Distance Climbed", "minecraft:climb_one_cm">> >>

MovementNames == {MovementKeys[k][1] : k \in 1..Len(MovementKeys)}

\* the part of calculate_aternos_distance that sums: the total of the
\* converted entries
total_blocks(distances_blocks) == SumOver(distances_blocks, MovementNames)

\* calculate_aternos_distance with the flown distance added to the total
calculate_aternos_distance_WithFlight(stats) ==
    LET distances_cm ==
            [n \in MovementNames |->
                LET k == CHOOSE j \in 1..Len(MovementKeys) :
                             MovementKeys[j][1] = n
                IN  get_custom(stats, MovementKeys[k][2])]
        flown == get_custom(stats, "minecraft:fly_one_cm")
    IN  IF \E n \in MovementNames : ~IsInt(distances_cm[n]) THEN Raise
        ELSE IF ~IsInt(flown) THEN Raise
        ELSE LET distances_blocks ==
                     [n \in MovementNames |-> cm_to_blocks(distances_cm[n].val)]
             IN  Ok(distances_blocks
                    @@ ("Total (blocks)" :> total_blocks(distances_blocks)
                                             + cm_to_blocks(flown.val)))

\* raises when one of the nine counters is no number (round() of str / int)
calculate_aternos_distance(stats) ==
    LET distances_cm ==
            [n \in MovementNames |->
                LET k == CHOOSE j \in 1..Len(MovementKeys) :
                             MovementKeys[j][1] = n
                IN  get_custom(stats, MovementKeys[k][2])]
    IN  IF \E n \in MovementNames : ~IsInt(distances_cm[n]) THEN Raise
        ELSE LET distances_blocks ==
                     [n \in MovementNames |-> cm_to_blocks(distances_cm[n].val)]
             IN  Ok(distances_blocks
                    @@ ("Total (blocks)" :> total_blocks(distances_blocks)))

-----------------------------------------------------------------------------
(* The report of one stats file *)

\* kdr_of cutting the ratio off after two decimals
kdr_of_Truncated(player_kills, deaths) ==
    IF deaths > 0 THEN (100 * player_kills) \div deaths
    ELSE 100 * player_kills

\* kdr_of dividing whenever deaths is not 0
kdr_of_IfDeaths(player_kills, deaths) ==
    IF deaths > 0 THEN RoundHalfEven(100 * player_kills, deaths)
    ELSE IF deaths < 0 THEN 0 - RoundHalfEven(100 * player_kills, 0 - deaths)
    ELSE 100 * player_kills

\* round(player_kills / deaths, 2) if deaths > 0 else float(player_kills),
\* in hundredths
kdr_of(player_kills, deaths) ==
    IF deaths > 0 THEN RoundHalfEven(100 * player_kills, deaths)
    ELSE 100 * player_kills

\* the "hearts" entry: health if health is not None else "N/A"
hearts_of(health) == IF health # None THEN health ELSE NA

\* A stats file is [kind, data]: kind "malformed" (json.load raises), "list"
\* (valid JSON that is no object: data.get raises) or "object" (data is the
\* dict).
parse_player_stats(uuid, name, health, doc) ==
    IF doc.kind # "object" THEN Raise
    ELSE
    LET data == doc.data
        stats == Get(data, "stats", EmptyDict)
        mined == Get(stats, "minecraft:mined", EmptyDict)
        used == Get(stats, "minecraft:used", EmptyDict)
        killed == Get(stats, "minecraft:killed", EmptyDict)
        play_time == get_custom(stats, "minecraft:play_time")
        blocks_mined == get_total(mined)
        items_used == get_total(used)
        player_kills == get_custom(stats, "minecraft:player_kills")
        mob_kills == get_custom(stats, "minecraft:mob_kills")
        deaths == get_custom(stats, "minecraft:deaths")
        entities_killed == get_total(killed)
        jumps == get_custom(stats, "minecraft:jump")
        movement == calculate_aternos_distance(stats)
    IN  IF \/ ~IsInt(play_time)
           \/ ~blocks_mined.ok
           \/ ~items_used.ok
           \/ ~entities_killed.ok
           \/ ~IsInt(deaths)
           \/ ~IsInt(player_kills)
           \/ ~movement.ok
        THEN Raise
        ELSE Ok([uuid |-> uuid,
                 name |-> IF name # "" THEN name ELSE "Unknown",
                 playtime |-> ticks_to_minutes(play_time.val),
                 hearts |-> hearts_of(health),
                 blocksMined |-> blocks_mined.val,
                 distanceTraveled |-> movement.val["Total (blocks)"],
                 playerKills |-> player_kills.val,
                 mobKills |-> mob_kills,
                 kills |-> player_kills.val,
                 deaths |-> deaths.val,
                 KDR |-> kdr_of(player_kills.val, deaths.val),
                 itemsUsed |-> items_used.val,
                 entitiesKilled |-> entities_killed.val,
                 jumps |-> jumps,
                 movement |-> movement.val])

-----------------------------------------------------------------------------
(* The profile of one playerdata file *)

\* Python's "not name" for a name that is None (<<>>) or a string (<<s>>)
Falsy(name) == name = <<>> \/ name = <<"">>

\* the name the loader stores for a decoded profile
resolve_name(nbt) ==
    LET name1 ==
            IF "bukkit" \in DOMAIN nbt
            THEN LET bukkit == nbt["bukkit"] IN
                 IF /\ "player" \in DOMAIN bukkit
                    /\ "Name" \in DOMAIN bukkit["player"]
                 THEN <<bukkit["player"]["Name"]>>
                 ELSE IF "lastKnownName" \in DOMAIN bukkit
                 THEN <<bukkit["lastKnownName"]>>
                 ELSE <<>>
            ELSE <<>>
        name2 == IF Falsy(name1) /\ "Name" \in DOMAIN nbt
                 THEN <<nbt["Name"]>> ELSE name1
        name3 == IF Falsy(name2) THEN <<"Unknown">> ELSE name2
    IN  name3[1]

\* float(tag): a numeric tag gives its value (health points), a String tag
\* that is no number raises
to_float(tag) == IF tag.tag = "Float" THEN Ok(tag.val) ELSE Raise

\* the health the loader reads, in health points
resolve_health(nbt) ==
    IF "Health" \in DOMAIN nbt THEN to_float(nbt["Health"])
    ELSE IF "health" \in DOMAIN nbt THEN to_float(nbt["health"])
    ELSE Ok(0)

\* The body of the loader's try block. A profile file is [kind, nbt]: kind
\* "corrupt" (nbtlib.load raises) or "nbt" (nbt is the decoded tree).
\* The entry's health is round(health / 2, 1), in tenths of a heart.
read_profile(doc) ==
    IF doc.kind # "nbt" THEN Raise
    ELSE LET health == resolve_health(doc.nbt) IN
         IF ~health.ok THEN Raise
         ELSE Ok([name |-> resolve_name(doc.nbt),
                  health |-> Num(RoundHalfEven(10 * health.val, 2))])

-----------------------------------------------------------------------------
(* main() *)

\* player_meta.get(uuid, {"name": "Unknown", "health": 0})
default_meta == [name |-> "Unknown", health |-> Num(0)]

Bump(field) == [calls EXCEPT ![field] = @ + 1]

\* MainMissingStats without its return: main goes on to the loader
MainMissingStats_NoReturn ==
    /\ pc = "start"
    /\ ~statsFolder.exists
    /\ log' = Append(log, "ERROR")
    /\ info' = EmptyDict
    /\ calls' = Bump("loader")
    /\ pc' = "load"
    /\ i' = 1
    /\ UNCHANGED <<statsFolder, playerdataFolder, player_meta, players,
                   output>>

\* the stats directory is absent: an error line, and main returns
MainMissingStats ==
    /\ pc = "start"
    /\ ~statsFolder.exists
    /\ log' = Append(log, "ERROR")
    /\ pc' = "done"
    /\ UNCHANGED <<statsFolder, playerdataFolder, i, info, player_meta,
                   players, output, calls>>

\* main calls the loader, which finds no playerdata directory and returns
\* the empty dict
LoaderMissingFolder ==
    /\ pc = "start"
    /\ statsFolder.exists
    /\ ~playerdataFolder.exists
    /\ info' = EmptyDict
    /\ player_meta' = EmptyDict
    /\ players' = <<>>
    /\ log' = Append(log, "WARN")
    /\ calls' = Bump("loader")
    /\ pc' = "parse"
    /\ i' = 1
    /\ UNCHANGED <<statsFolder, playerdataFolder, output>>

\* main calls the loader, which starts on the listing of playerdata
LoaderEnter ==
    /\ pc = "start"
    /\ statsFolder.exists
    /\ playerdataFolder.exists
    /\ info' = EmptyDict
    /\ calls' = Bump("loader")
    /\ pc' = "load"
    /\ i' = 1
    /\ UNCHANGED <<statsFolder, playerdataFolder, player_meta, players,
                   output, log>>

\* an entry that is no .dat file is passed over
LoaderSkip ==
    /\ pc = "load"
    /\ i <= Len(playerdataFolder.files)
    /\ ~endswith(playerdataFolder.files[i].name, DAT_EXT)
    /\ i' = i + 1
    /\ UNCHANGED <<statsFolder, playerdataFolder, pc, info, player_meta,
                   players, output, log, calls>>

\* a .dat file is read and its entry stored under its identifier
LoaderStore ==
    /\ pc = "load"
    /\ i <= Len(playerdataFolder.files)
    /\ LET file == playerdataFolder.files[i].name
           uuid == splitext(file)
           got == read_profile(playerdataFolder.files[i].doc)
       IN  /\ endswith(file, DAT_EXT)
           /\ got.ok
           /\ info' = (uuid :> got.val) @@ info
    /\ i' = i + 1
    /\ UNCHANGED <<statsFolder, playerdataFolder, pc, player_meta, players,
                   output, log, calls>>

\* reading a .dat file raises: a warning, and the scan goes on
LoaderWarn ==
    /\ pc = "load"
    /\ i <= Len(playerdataFolder.files)
    /\ endswith(playerdataFolder.files[i].name, DAT_EXT)
    /\ ~read_profile(playerdataFolder.files[i].doc).ok
    /\ log' = Append(log, "WARN")
    /\ i' = i + 1
    /\ UNCHANGED <<statsFolder, playerdataFolder, pc, info, player_meta,
                   players, output, calls>>

\* the scan is over: the loader returns info, main starts on the stats
LoaderReturn ==
    /\ pc = "load"
    /\ i > Len(playerdataFolder.files)
    /\ player_meta' = info
    /\ players' = <<>>
    /\ log' = Append(log, "OK")
    /\ pc' = "parse"
    /\ i' = 1
    /\ UNCHANGED <<statsFolder, playerdataFolder, info, output, calls>>

\* an entry that is no .json file is passed over
ParseSkip ==
    /\ pc = "parse"
    /\ i <= Len(statsFolder.files)
    /\ ~endswith(statsFolder.files[i].name, STATS_EXT)
    /\ i' = i + 1
    /\ UNCHANGED <<statsFolder, playerdataFolder, pc, info, player_meta,
                   players, output, log, calls>>

\* what main passes to parse_player_stats for the i-th entry, and gets
Parsed(k) ==
    LET uuid == splitext(statsFolder.files[k].name)
        meta == Get(player_meta, uuid, default_meta)
    IN  parse_player_stats(uuid, meta.name, meta.health,
                           statsFolder.files[k].doc)

\* a .json file gives a report, which is appended
ParseAppend ==
    /\ pc = "parse"
    /\ i <= Len(statsFolder.files)
    /\ endswith(statsFolder.files[i].name, STATS_EXT)
    /\ Parsed(i).ok
    /\ players' = Append(players, Parsed(i).val)
    /\ log' = Append(log, "OK")
    /\ calls' = Bump("parse")
    /\ i' = i + 1
    /\ UNCHANGED <<statsFolder, playerdataFolder, pc, info, player_meta,
                   output>>

\* building the report raises: a warning, and the loop goes on
ParseWarn ==
    /\ pc = "parse"
    /\ i <= Len(statsFolder.files)
    /\ endswith(statsFolder.files[i].name, STATS_EXT)
    /\ ~Parsed(i).ok
    /\ log' = Append(log, "WARN")
    /\ calls' = Bump("parse")
    /\ i' = i + 1
    /\ UNCHANGED <<statsFolder, playerdataFolder, pc, info, player_meta,
                   players, output>>

\* every entry has been seen: players.json is written, and main returns
Export ==
    /\ pc = "parse"
    /\ i > Len(statsFolder.files)
    /\ output' = <<players>>
    /\ log' = Append(log, "DONE")
    /\ calls' = Bump("export")
    /\ pc' = "done"
    /\ UNCHANGED <<statsFolder, playerdataFolder, i, info, player_meta,
                   players>>

Next ==
    \/ MainMissingStats
    \/ LoaderMissingFolder
    \/ LoaderEnter
    \/ LoaderSkip
    \/ LoaderStore
    \/ LoaderWarn
    \/ LoaderReturn
    \/ ParseSkip
    \/ ParseAppend
    \/ ParseWarn
    \/ Export

-----------------------------------------------------------------------------
(* Inputs *)

StatsNames == {
    <<"a", ".", "json">>,
    <<"b", ".", "json">>,
    <<".", "json">>,
    <<".", "json", ".", "json">>,
    <<"notes", ".", "txt">> }

ProfileNames == {
    <<"a", ".", "dat">>,
    <<".", "dat">>,
    <<".", "dat", ".", "dat">>,
    <<"a", ".", "dat_old">> }

Malformed == [kind |-> "malformed", data |-> EmptyDict]
NotAnObject == [kind |-> "list", data |-> EmptyDict]
Object(data) == [kind |-> "object", data |-> data]

\* {"stats": {"minecraft:custom": custom}}
CustomDoc(custom) ==
    Object([stats |-> ("minecraft:custom" :> custom)])

SampleStats == [stats |->
    (  "minecraft:custom" :>
          (  "minecraft:play_time" :> JInt(72000)
          @@ "minecraft:player_kills" :> JInt(10)
          @@ "minecraft:deaths" :> JInt(4)
          @@ "minecraft:mob_kills" :> JInt(7)
          @@ "minecraft:jump" :> JInt(12)
          @@ "minecraft:walk_one_cm" :> JInt(250)
          @@ "minecraft:sprint_one_cm" :> JInt(150)
          @@ "minecraft:fly_one_cm" :> JInt(100000) )
    @@ "minecraft:mined" :>
          ("minecraft:stone" :> JInt(3) @@ "minecraft:dirt" :> JInt(5))
    @@ "minecraft:used" :> ("minecraft:torch" :> JInt(8))
    @@ "minecraft:killed" :> ("minecraft:zombie" :> JInt(2)) )]

\* a deaths counter that is a string: the comparison deaths > 0 raises
WrongTyped == CustomDoc("minecraft:deaths" :> JStr)

BaseStatsDocs == {Malformed, WrongTyped, Object(SampleStats)}

\* other shapes: no object, an object without "stats", empty sections, a
\* string where a sum or a conversion needs a number, a string in counters
\* that are only copied
OddStatsDocs == {
    NotAnObject,
    Object(EmptyDict),
    Object([stats |-> EmptyDict]),
    Object([stats |-> ("minecraft:mined" :> EmptyDict)]),
    Object([stats |-> ("minecraft:mined" :> ("minecraft:stone" :> JStr))]),
    Object([stats |-> ("minecraft:killed" :> ("minecraft:zombie" :> JStr))]),
    CustomDoc("minecraft:play_time" :> JStr),
    CustomDoc("minecraft:player_kills" :> JStr),
    CustomDoc("minecraft:climb_one_cm" :> JStr),
    CustomDoc("minecraft:fly_one_cm" :> JStr),
    CustomDoc("minecraft:mob_kills" :> JStr @@ "minecraft:jump" :> JStr) }

Corrupt == [kind |-> "corrupt", nbt |-> EmptyDict]
Nbt(nbt) == [kind |-> "nbt", nbt |-> nbt]
Float(points) == [tag |-> "Float", val |-> points]
StringTag == [tag |-> "String", val |-> 0]

BaseProfileDocs == {
    Corrupt,
    Nbt("Name" :> "Alex" @@ "Health" :> StringTag),
    Nbt("bukkit" :> ("lastKnownName" :> "Steve") @@ "Health" :> Float(19)) }

\* the listings of n entries with different names
Listings(names, docs, n) ==
    {l \in [1..n -> [name : names, doc : docs]] :
        \A a, b \in 1..n : a # b => l[a].name # l[b].name}

Folders(names, docs, n) ==
    {Folder(l) : l \in Listings(names, docs, n)}
        \cup (IF n = 0 THEN {Missing} ELSE {})

\* main() has not started
AtStart ==
    /\ pc = "start"
    /\ i = 1
    /\ info = EmptyDict
    /\ player_meta = EmptyDict
    /\ players = <<>>
    /\ output = NotWritten
    /\ log = <<>>
    /\ calls = [loader |-> 0, parse |-> 0, export |-> 0]

\* at most MaxFiles files in the two directories
InitFolders ==
    /\ \E ns, np \in 0..MaxFiles :
        /\ ns + np <= MaxFiles
        /\ statsFolder \in Folders(StatsNames, BaseStatsDocs, ns)
        /\ playerdataFolder \in Folders(ProfileNames, BaseProfileDocs, np)
    /\ AtStart

\* one stats file a.json, and no, a failing or a good profile of a
OneStatsFile(docs) ==
    /\ \E doc \in docs :
        statsFolder = Folder(<<[name |-> <<"a", ".", "json">>, doc |-> doc]>>)
    /\ \/ playerdataFolder = Missing
       \/ \E p \in BaseProfileDocs :
            playerdataFolder = Folder(<<[name |-> <<"a", ".", "dat">>, doc |-> p]>>)
    /\ AtStart

Init == InitFolders \/ OneStatsFile(OddStatsDocs)

Spec == Init /\ [][Next]_vars

\* one stats file a.json and no playerdata directory
StatsFileOnly(docs) ==
    /\ \E doc \in docs :
        statsFolder = Folder(<<[name |-> <<"a", ".", "json">>, doc |-> doc]>>)
    /\ playerdataFolder = Missing
    /\ AtStart

\* stats files with one distance, or one play time
RoundDocs ==
    {CustomDoc("minecraft:walk_one_cm" :> JInt(cm)) : cm \in 0..MaxCm}
        \cup {CustomDoc("minecraft:play_time" :> JInt(t)) : t \in 0..MaxTicks}

InitRound == Init \/ StatsFileOnly(RoundDocs)

SpecRound == InitRound /\ [][Next]_vars

\* stats files with any, one or both of player_kills and deaths, of either
\* sign
Counts == (0 - MaxCount)..MaxCount
KdrDocs ==
    {CustomDoc(EmptyDict)}
        \cup {CustomDoc("minecraft:player_kills" :> JInt(k)) : k \in Counts}
        \cup {CustomDoc("minecraft:deaths" :> JInt(d)) : d \in Counts}
        \cup {CustomDoc("minecraft:player_kills" :> JInt(k)
                        @@ "minecraft:deaths" :> JInt(d)) :
                 k \in Counts, d \in Counts}

InitKdr == Init \/ StatsFileOnly(KdrDocs)

SpecKdr == InitKdr /\ [][Next]_vars

\* stats files with all nine of the summed counters or with at most
\* MaxSummed of them, each 50 or 160 cm, and with or without the counters of
\* the other ways to move
SummedKeys == {MovementKeys[k][2] : k \in 1..Len(MovementKeys)}
CmSamples == {50, 160}
SummedSets ==
    {S \in SUBSET SummedKeys : Cardinality(S) <= MaxSummed} \cup {SummedKeys}
OtherMovement ==
       "minecraft:fly_one_cm" :> JInt(100000)
    @@ "minecraft:minecart_one_cm" :> JInt(5000)
    @@ "minecraft:horse_one_cm" :> JInt(7000)
    @@ "minecraft:pig_one_cm" :> JInt(350)
    @@ "minecraft:aviate_one_cm" :> JInt(250000)
MoveDocs ==
    {CustomDoc([k \in DOMAIN cm |-> JInt(cm[k])] @@ other) :
        cm \in UNION {[S -> CmSamples] : S \in SummedSets},
        other \in {EmptyDict, OtherMovement}}

InitMove == Init \/ StatsFileOnly(MoveDocs)

SpecMove == InitMove /\ [][Next]_vars

\* profiles with every shape of the three name fields (absent, empty, set;
\* the nested ones with and without their parent) and of the two health
\* fields
Opt(key, values) == {EmptyDict} \cup {key :> v : v \in values}
PlayerTags == {EmptyDict} \cup {"Name" :> n : n \in {"", "Pat"}}
BukkitTags ==
    {p @@ l : p \in Opt("player", PlayerTags),
              l \in Opt("lastKnownName", {"", "Lee"})}
HealthTags == {
    EmptyDict,
    "Health" :> Float(20),
    "health" :> Float(7),
    "Health" :> Float(20) @@ "health" :> Float(7) }
NameNbts ==
    {b @@ t @@ h : b \in Opt("bukkit", BukkitTags),
                   t \in Opt("Name", {"", "Tom"}),
                   h \in HealthTags}

\* one profile a.dat, and the stats file of a
OneProfile(nbts) ==
    /\ \E nbt \in nbts :
        playerdataFolder =
            Folder(<<[name |-> <<"a", ".", "dat">>, doc |-> Nbt(nbt)]>>)
    /\ statsFolder = Folder(<<[name |-> <<"a", ".", "json">>,
                               doc |-> Object(SampleStats)]>>)
    /\ AtStart

InitNames == Init \/ OneProfile(NameNbts)

SpecNames == InitNames /\ [][Next]_vars

-----------------------------------------------------------------------------
(* What the claims speak of *)

Abs(x) == IF x < 0 THEN -x ELSE x

\* the stats entries that are .json files, and those of them whose report
\* was built
JsonFiles == {k \in 1..Len(statsFolder.files) :
                 endswith(statsFolder.files[k].name, STATS_EXT)}
Built == {k \in JsonFiles : Parsed(k).ok}

\* the entry the j-th report of players was built from
SourceOf(j) == CHOOSE k \in Built : Cardinality({m \in Built : m <= k}) = j

\* the custom section of the k-th stats entry, and a counter of it, 0 when
\* absent
CustomOf(k) ==
    Get(Get(statsFolder.files[k].doc.data, "stats", EmptyDict),
        "minecraft:custom", EmptyDict)
Counter(k, key) == Get(CustomOf(k), key, JInt(0)).val

IdOf(file) == splitext(file)
ReportIds(reports) == {reports[j].uuid : j \in 1..Len(reports)}
Returned == pc = "done"
Written == output # NotWritten

\* players holds the reports of the entries built so far, in listing order
ReportsFollowListing ==
    pc \in {"parse", "done"} =>
        /\ Len(players) = Cardinality({k \in Built : k < i})
        /\ \A j \in 1..Len(players) :
              /\ SourceOf(j) < i
              /\ players[j] = Parsed(SourceOf(j)).val

-----------------------------------------------------------------------------
(* C1 *)

\* C1: when the stats directory does not exist, the run ends after logging
\* one error line: players.json is never written, the profile loader is
\* never called and no report is built.
C1_MissingStatsFolder ==
    ~statsFolder.exists =>
        /\ output = NotWritten
        /\ calls = [loader |-> 0, parse |-> 0, export |-> 0]
        /\ players = <<>>
        /\ pc \in {"start", "done"}
        /\ Returned => log = <<"ERROR">>

\* the run has ended without a stats directory, next to a playerdata
\* directory that holds profiles
C1_Witness ==
    /\ ~statsFolder.exists
    /\ Returned
    /\ log = <<"ERROR">>
    /\ playerdataFolder.exists
    /\ Len(playerdataFolder.files) > 0

-----------------------------------------------------------------------------
(* C2 *)

\* C2: whatever stats files fail, the run does not abort: it ends with
\* players.json written, the identifier of each failing file is absent from
\* the written collection, and the identifier of every other stats file is
\* in it.
C2_FailingAbsentOthersPresent ==
    (statsFolder.exists /\ Returned) =>
        /\ Written
        /\ \A k \in JsonFiles :
              IdOf(statsFolder.files[k].name) \in ReportIds(output[1])
                  <=> Parsed(k).ok

\* the part of C2 that holds: the run ends with the file written, every
\* stats file that can be built has its identifier in the collection, and no
\* identifier is there whose files all fail
C2_NoAbortBuiltPresent ==
    (statsFolder.exists /\ Returned) =>
        /\ Written
        /\ ReportIds(output[1]) =
              {IdOf(statsFolder.files[k].name) : k \in Built}

-----------------------------------------------------------------------------
(* C3 *)

\* C3: a stats identifier without an entry in the profile map still gets a
\* report, named "Unknown", whose hearts is "N/A" and no number.
C3_NoProfileGivesNA ==
    pc \in {"parse", "done"} =>
        \A j \in 1..Len(players) :
            players[j].uuid \notin DOMAIN player_meta =>
                /\ players[j].name = "Unknown"
                /\ players[j].hearts = NA

\* the part of C3 that holds: the report is built and named "Unknown"; its
\* hearts is the number 0
C3_NoProfileGivesZero ==
    pc \in {"parse", "done"} =>
        \A j \in 1..Len(players) :
            players[j].uuid \notin DOMAIN player_meta =>
                /\ players[j].name = "Unknown"
                /\ players[j].hearts = Num(0)

-----------------------------------------------------------------------------
(* C9 *)

\* the playerdata entries that are .dat files, and those that load
DatFiles == {k \in 1..Len(playerdataFolder.files) :
                endswith(playerdataFolder.files[k].name, DAT_EXT)}
Loaded == {k \in DatFiles : read_profile(playerdataFolder.files[k].doc).ok}

\* the loader was called and has returned
LoaderReturned == calls.loader = 1 /\ pc \in {"parse", "done"}

\* a complete entry: a name and a health, both set
CompleteEntry(e) ==
    /\ DOMAIN e = {"name", "health"}
    /\ e.name # ""
    /\ e.health.tag = "num"

\* C9: a profile that fails to load neither aborts the scan nor leaves an
\* entry: the loader returns a map of complete entries whose identifiers
\* are exactly those of the .dat files that loaded, the identifiers of the
\* failing files being absent; without a playerdata directory the map is
\* empty and the run goes on.
C9_LoaderMapExact ==
    /\ (statsFolder.exists /\ Returned) => LoaderReturned
    /\ LoaderReturned =>
        /\ DOMAIN player_meta =
              {IdOf(playerdataFolder.files[k].name) : k \in Loaded}
        /\ \A k \in DatFiles \ Loaded :
              IdOf(playerdataFolder.files[k].name) \notin DOMAIN player_meta
        /\ \A u \in DOMAIN player_meta : CompleteEntry(player_meta[u])
        /\ ~playerdataFolder.exists => player_meta = EmptyDict

\* the part of C9 that holds: all of it but the absence of the failing
\* files' identifiers
C9_LoaderMapOfLoaded ==
    /\ (statsFolder.exists /\ Returned) => LoaderReturned
    /\ LoaderReturned =>
        /\ DOMAIN player_meta =
              {IdOf(playerdataFolder.files[k].name) : k \in Loaded}
        /\ \A u \in DOMAIN player_meta : CompleteEntry(player_meta[u])
        /\ ~playerdataFolder.exists => player_meta = EmptyDict

-----------------------------------------------------------------------------
(* C10 *)

\* the reports of the built entries among the first n, in listing order
RECURSIVE ReportsUpTo(_)
ReportsUpTo(n) ==
    IF n = 0 THEN <<>>
    ELSE IF n \in Built THEN Append(ReportsUpTo(n - 1), Parsed(n).val)
    ELSE ReportsUpTo(n - 1)

NoIdRepeated(reports) ==
    \A a, b \in 1..Len(reports) : a # b => reports[a].uuid # reports[b].uuid

\* the file is written once, at the end, after the profile scan and after
\* every stats entry, and holds the reports of the built .json files in
\* listing order
WrittenOnceInOrder ==
    statsFolder.exists =>
        /\ calls.export <= 1
        /\ Written <=> Returned
        /\ Written <=> calls.export = 1
        /\ Written =>
              /\ calls.loader = 1
              /\ i > Len(statsFolder.files)
              /\ calls.parse = Cardinality(JsonFiles)
              /\ output[1] = ReportsUpTo(Len(statsFolder.files))
              /\ Len(output[1]) = Cardinality(Built)

\* C10: with a stats directory the output is written exactly once, after
\* the profile scan and after every stats file, and is the sequence of the
\* reports of the successfully processed .json files in discovery order,
\* one per file, no identifier repeated.
C10_WrittenOnceNoRepeat ==
    /\ WrittenOnceInOrder
    /\ (statsFolder.exists /\ Written) => NoIdRepeated(output[1])

-----------------------------------------------------------------------------
(* C4 *)

\* the nine entries of the breakdown and the counters they come from, as
\* the claim lists them
NineEntries ==
       "Distance Sprinted" :> "minecraft:sprint_one_cm"
    @@ "Distance Walked" :> "minecraft:walk_one_cm"
    @@ "Distance by Boat" :> "minecraft:boat_one_cm"
    @@ "Distance Fallen" :> "minecraft:fall_one_cm"
    @@ "Distance Swum" :> "minecraft:swim_one_cm"
    @@ "Distance Walked on Water" :> "minecraft:walk_on_water_one_cm"
    @@ "Distance Walked under Water" :> "minecraft:walk_under_water_one_cm"
    @@ "Distance Crouched" :> "minecraft:crouch_one_cm"
    @@ "Distance Climbed" :> "minecraft:climb_one_cm"

\* b is cm / 100 rounded to a nearest integer
NearestBlock(b, cm) == 2 * Abs(100 * b - cm) <= 100

\* C4: in every report the breakdown has the nine entries and the total,
\* each entry is its own counter converted to blocks, the total is the sum
\* of the nine entries, and distanceTraveled is the total: no other counter
\* of the custom section has a part in it.
C4_TotalIsSumOfNine ==
    pc \in {"parse", "done"} =>
        \A j \in 1..Len(players) :
            LET m == players[j].movement IN
            /\ DOMAIN m = DOMAIN NineEntries \cup {"Total (blocks)"}
            /\ \A n \in DOMAIN NineEntries :
                  NearestBlock(m[n], Counter(SourceOf(j), NineEntries[n]))
            /\ m["Total (blocks)"] = SumOver(m, DOMAIN NineEntries)
            /\ players[j].distanceTraveled = m["Total (blocks)"]

\* a report of a file with summed counters (50 cm fallen: 0 blocks, 160 cm
\* climbed: 2 blocks) and with the fly, minecart, horse, pig and elytra
\* counters, whose total is 2
C4_Witness ==
    /\ Returned
    /\ Written
    /\ \E j \in 1..Len(players) :
          /\ Counter(SourceOf(j), "minecraft:fly_one_cm") = 100000
          /\ Counter(SourceOf(j), "minecraft:aviate_one_cm") = 250000
          /\ Counter(SourceOf(j), "minecraft:fall_one_cm") = 50
          /\ Counter(SourceOf(j), "minecraft:climb_one_cm") = 160
          /\ players[j].movement["Distance Climbed"] = 2
          /\ players[j].distanceTraveled = 2

-----------------------------------------------------------------------------
(* C5 *)

\* r hundredths is kills / deaths rounded to two decimals
NearestHundredth(r, kills, deaths) == 2 * Abs(100 * kills - r * deaths) <= deaths

\* C5: every stats file whose player_kills and deaths are integers or absent
\* (absent counting as 0) gets a report, deaths = 0 included, and its KDR is
\* kills / deaths rounded to two decimals when deaths > 0, else kills; so
\* 5 kills and no death give 5.0, 10 and 4 give 2.5, 1 and 3 give 0.33.
C5_KdrPolicy ==
    pc \in {"parse", "done"} =>
        /\ \A k \in JsonFiles :
              (k < i /\ statsFolder.files[k].doc \in KdrDocs) => k \in Built
        /\ \A j \in 1..Len(players) :
              LET kills == Counter(SourceOf(j), "minecraft:player_kills")
                  deaths == Counter(SourceOf(j), "minecraft:deaths")
                  kdr == players[j].KDR
              IN  /\ deaths > 0 => NearestHundredth(kdr, kills, deaths)
                  /\ deaths <= 0 => kdr = 100 * kills
                  /\ (deaths = 0 /\ kills = 5) => kdr = 500
                  /\ (deaths = 4 /\ kills = 10) => kdr = 250
                  /\ (deaths = 3 /\ kills = 1) => kdr = 33

\* a report of a file with 5 kills and a deaths counter of 0: its KDR is 5.0
C5_Witness ==
    \E j \in 1..Len(players) :
        /\ "minecraft:deaths" \in DOMAIN CustomOf(SourceOf(j))
        /\ Counter(SourceOf(j), "minecraft:deaths") = 0
        /\ Counter(SourceOf(j), "minecraft:player_kills") = 5
        /\ players[j].KDR = 500

-----------------------------------------------------------------------------
(* C6 *)

\* C6: the KDR of every report is a finite number that is not negative,
\* whatever integers player_kills and deaths are.
C6_KdrNeverNegative ==
    \A j \in 1..Len(players) :
        /\ players[j].KDR \in Int
        /\ players[j].KDR >= 0

\* C6 as amended: the KDR of every report of a stats file whose player_kills
\* is not negative (deaths being any integer) is a finite number that is not
\* negative.
C6_KdrNotNegativeForKills ==
    pc \in {"parse", "done"} =>
        \A j \in 1..Len(players) :
            Counter(SourceOf(j), "minecraft:player_kills") >= 0 =>
                /\ players[j].KDR \in Int
                /\ players[j].KDR >= 0

\* a report of a file with 3 kills and a deaths counter of -2: its KDR is 3.0
C6_Witness ==
    \E j \in 1..Len(players) :
        /\ Counter(SourceOf(j), "minecraft:player_kills") = 3
        /\ Counter(SourceOf(j), "minecraft:deaths") = 0 - 2
        /\ players[j].KDR = 300

-----------------------------------------------------------------------------
(* C7 *)

\* C7: the blocks of a distance are its centimetres / 100 rounded to the
\* nearest integer with exact ties rounded up (250 cm: 3 blocks), and the
\* minutes of a play time its ticks / 1200 rounded alike (72000: 60).
C7_TiesRoundUp ==
    pc \in {"parse", "done"} =>
        \A j \in 1..Len(players) :
            /\ players[j].movement["Distance Walked"] =
                  RoundHalfUp(Counter(SourceOf(j), "minecraft:walk_one_cm"), 100)
            /\ players[j].playtime =
                  RoundHalfUp(Counter(SourceOf(j), "minecraft:play_time"), 1200)

\* n is x / unit rounded to the nearest integer, an exact tie to the even
\* one
NearestTiesToEven(n, x, unit) ==
    /\ 2 * Abs(unit * n - x) <= unit
    /\ 2 * Abs(unit * n - x) = unit => n % 2 = 0

\* C7 as amended: the blocks of a distance are its centimetres / 100 rounded
\* to the nearest integer with exact ties rounded to the even neighbour
\* (50 cm: 0, 150 cm: 2, 250 cm: 2, 450 cm: 4), and the minutes of a play
\* time its ticks / 1200 rounded alike (600: 0, 1800: 2, 72000: 60).
C7_TiesRoundToEven ==
    pc \in {"parse", "done"} =>
        \A j \in 1..Len(players) :
            LET cm == Counter(SourceOf(j), "minecraft:walk_one_cm")
                ticks == Counter(SourceOf(j), "minecraft:play_time")
                blocks == players[j].movement["Distance Walked"]
                minutes == players[j].playtime
            IN  /\ cm >= 0 => NearestTiesToEven(blocks, cm, 100)
                /\ ticks >= 0 => NearestTiesToEven(minutes, ticks, 1200)
                /\ cm = 50 => blocks = 0
                /\ cm = 150 => blocks = 2
                /\ cm = 250 => blocks = 2
                /\ cm = 450 => blocks = 4
                /\ ticks = 600 => minutes = 0
                /\ ticks = 1800 => minutes = 2
                /\ ticks = 72000 => minutes = 60

\* a report of a file with 250 cm walked: 2 blocks
C7_Witness ==
    \E j \in 1..Len(players) :
        /\ Counter(SourceOf(j), "minecraft:walk_one_cm") = 250
        /\ Counter(SourceOf(j), "minecraft:play_time") = 0
        /\ players[j].movement["Distance Walked"] = 2

-----------------------------------------------------------------------------
(* C8 *)

\* whether a field gives a name: it is there and not empty
GivesName(d, key) == key \in DOMAIN d /\ d[key] # ""

\* the first name available in the order of the claim
FirstAvailable(nbt) ==
    LET bukkit == Get(nbt, "bukkit", EmptyDict)
        player == Get(bukkit, "player", EmptyDict)
    IN  IF GivesName(player, "Name") THEN player["Name"]
        ELSE IF GivesName(bukkit, "lastKnownName") THEN bukkit["lastKnownName"]
        ELSE IF GivesName(nbt, "Name") THEN nbt["Name"]
        ELSE "Unknown"

\* C8: the name stored for a profile is the first available of
\* bukkit.player.Name, bukkit.lastKnownName, the top-level Name and
\* "Unknown", whichever of the three fields are present, absent or empty.
C8_FirstAvailableName ==
    (pc = "load" /\ i > 1 /\ (i - 1) \in Loaded) =>
        LET file == playerdataFolder.files[i - 1] IN
        info[IdOf(file.name)].name = FirstAvailable(file.doc.nbt)

\* the part of C8 that holds: the order is kept whenever bukkit.player.Name
\* is absent or gives a name
C8_FirstAvailableUnlessEmptyPlayerName ==
    (pc = "load" /\ i > 1 /\ (i - 1) \in Loaded) =>
        LET file == playerdataFolder.files[i - 1]
            bukkit == Get(file.doc.nbt, "bukkit", EmptyDict)
            player == Get(bukkit, "player", EmptyDict)
        IN  ("Name" \in DOMAIN player => player["Name"] # "") =>
                info[IdOf(file.name)].name = FirstAvailable(file.doc.nbt)

====
